---- MODULE Spec2Model ----
(***************************************************************************)
(* Model of sunpy.util.multimethod.MultiMethod: a runtime multiple         *)
(* dispatch engine with a registry of (signature, implementation) pairs,   *)
(* a resolution cache keyed by tuples of runtime types, and a cooperative  *)
(* delegation entry point (MultiMethod.super).                             *)
(***************************************************************************)
EXTENDS Integers, Sequences, FiniteSets, TLC

VARIABLES
    arity,      \* length of the tuple the extractor self.get returns
    extract,    \* which extractor self.get is
    thr,        \* where each concurrent caller is inside __call__
    methods,    \* self.methods: sequence of <<types, fun>> pairs
    cache,      \* self.cache: dict from type tuples to implementations
    decs,       \* number of _dec closures returned by add_dec, not yet applied
    res         \* what the last operation was given and what it produced

vars == <<arity, extract, thr, methods, cache, decs, res>>

(***************************************************************************)
(* Bounds of the model.                                                    *)
(***************************************************************************)
MaxMethods == 2
MaxDecs == 1
\* registry length when only registrations are explored
MaxBuild == 3

(***************************************************************************)
(* The override policies.                                                  *)
(***************************************************************************)
SILENT == 0
WARN == 1
FAIL == 2
\* a truthy value that is none of the three policies
BadOverride == 3
Overrides == {SILENT, WARN, FAIL, BadOverride}

(***************************************************************************)
(* The classes the callers dispatch on, with Python's subclass relation.   *)
(*     class Animal(object); class Dog(Animal)                             *)
(***************************************************************************)
Classes == {"object", "Animal", "Dog"}
SecondClasses == {"Animal", "Dog"}
Arities == {1, 2}

Base == [c \in Classes \ {"object"} |->
            IF c = "Dog" THEN "Animal" ELSE "object"]

\* c.__mro__ under single inheritance: c, then the __mro__ of its base
RECURSIVE mro_of(_)
mro_of(c) == IF c = "object" THEN <<"object">> ELSE <<c>> \o mro_of(Base[c])

MroTable == [c \in Classes |-> mro_of(c)]
mro(c) == MroTable[c]

\* issubclass(a, b): b is in a.__mro__
SupersTable == [a \in Classes |-> {mro(a)[i] : i \in 1..Len(mro(a))}]
issubclass(a, b) == b \in SupersTable[a]

\* the implementations that get registered; implementations are opaque to
\* the engine, so the first one registered is called f
Funs == {"f", "g"}
FunsFor(ms) == IF ms = <<>> THEN {"f"} ELSE Funs
None == "None"

(***************************************************************************)
(* Values passed to the engine: an instance of class cls, or, when         *)
(* thisclass is a class, the object super(thisclass, instance).            *)
(***************************************************************************)
Obj(c) == [cls |-> c, thisclass |-> None]
SuperObj(t, c) == [cls |-> c, thisclass |-> t]
IsSuper(x) == x.thisclass # None

Instances(cs) == {Obj(c) : c \in cs}
\* super(t, x) demands isinstance(x, t)
Markers(cs) == {SuperObj(p[1], p[2]) :
                   p \in {q \in Classes \X cs : issubclass(q[2], q[1])}}

\* the type tuples of length n that callers use as signatures
TypeTuples(n) ==
    IF n = 1 THEN {<<c>> : c \in Classes}
    ELSE {<<"Animal", "Dog">>, <<"Dog", "Animal">>}

\* the argument tuples of length n that callers pass to __call__
CallArgs(n) ==
    IF n = 1 THEN {<<x>> : x \in Instances(Classes)}
    ELSE {<<x, y>> : x \in Instances(SecondClasses),
                     y \in Instances(SecondClasses)}

\* the argument tuples of length n that callers pass to super
SuperArgs(n) ==
    IF n = 1 THEN {<<x>> : x \in Instances(Classes) \cup Markers({"Dog"})}
    ELSE {<<x, y>> : x \in Instances(SecondClasses) \cup Markers({"Dog"}),
                     y \in Instances(SecondClasses)}

(***************************************************************************)
(* Helpers of the engine.                                                  *)
(***************************************************************************)
Min(a, b) == IF a < b THEN a ELSE b

\* all(issubclass(a, b) for a, b in zip(xs, ys)): zip stops at the shorter
all_issubclass(xs, ys) ==
    \A i \in 1..Min(Len(xs), Len(ys)) : issubclass(xs[i], ys[i])

\* the extractor handed to __init__: lambda *a: a, or, for two arguments,
\* lambda a, b: (b, a)
Extractors == {"positional", "swapped"}
get(args) ==
    IF extract = "swapped"
    THEN [i \in 1..Len(args) |-> args[Len(args) + 1 - i]]
    ELSE args

\* tuple(map(type, objs))
type_of(objs) == [i \in 1..Len(objs) |-> objs[i].cls]

\* the subclass test of the loop with its arguments exchanged
overriden_reversed(ms, types, override) ==
    /\ override # 0
    /\ \E i \in 1..Len(ms) : all_issubclass(ms[i][1], types)

\* the loop run whatever the policy
overriden_unconditional(ms, types, override) ==
    \E i \in 1..Len(ms) : all_issubclass(types, ms[i][1])

\* the loop flagging only a signature that differs from the new one
overriden_strict(ms, types, override) ==
    /\ override # 0
    /\ \E i \in 1..Len(ms) :
          all_issubclass(types, ms[i][1]) /\ types # ms[i][1]

\* the loop of add: is some registered signature at or above types
overriden(ms, types, override) ==
    /\ override # 0
    /\ \E i \in 1..Len(ms) : all_issubclass(types, ms[i][1])

\* the loop variable signature as the loop of add leaves it
last_signature(ms) == ms[Len(ms)][1]

\* the scan without reversed(): the oldest match among the first i
RECURSIVE scan_oldest(_, _, _)
scan_oldest(ms, types, i) ==
    IF i = 0 THEN None
    ELSE LET older == scan_oldest(ms, types, i - 1) IN
         IF older # None THEN older
         ELSE IF all_issubclass(types, ms[i][1]) THEN ms[i][2]
         ELSE None

\* for signature, fun in reversed(self.methods): first match, or None
RECURSIVE scan(_, _, _)
scan(ms, types, i) ==
    IF i = 0 THEN None
    ELSE IF all_issubclass(types, ms[i][1]) THEN ms[i][2]
    ELSE scan(ms, types, i - 1)

\* the scan without its subclass test: the newest registration always wins
resolve_newest_unchecked(ms, types) ==
    IF Len(ms) = 0 THEN None ELSE ms[Len(ms)][2]

\* the scan starting one entry too late: the newest registration is missed
resolve_skip_newest(ms, types) ==
    IF Len(ms) = 0 THEN None ELSE scan(ms, types, Len(ms) - 1)

resolve(ms, types) == scan(ms, types, Len(ms))

\* self.cache.get(types, None)
cache_get(c, types) == IF types \in DOMAIN c THEN c[types] ELSE None

\* self.cache[types] = fun
cache_put(c, types, fun) ==
    [t \in DOMAIN c \cup {types} |-> IF t = types THEN fun ELSE c[t]]

\* '%r' % types: a tuple on the right of % is the argument list, so the
\* format succeeds only for a tuple of length one
fmt_r(types) == IF Len(types) = 1 THEN types ELSE <<>>

\* the supertype taken from the wrapped instance instead of __thisclass__
super_types_of_instance(objs) ==
    [i \in 1..Len(objs) |->
        IF IsSuper(objs[i]) /\ Len(mro(objs[i].cls)) > 1
        THEN mro(objs[i].cls)[2] ELSE objs[i].cls]

\* the discriminant types super computes
super_types(objs) ==
    [i \in 1..Len(objs) |->
        IF IsSuper(objs[i]) THEN mro(objs[i].thisclass)[2] ELSE objs[i].cls]

\* x.__thisclass__.__mro__[1] does not exist for object
super_types_fail(objs) ==
    \E i \in 1..Len(objs) : IsSuper(objs[i]) /\ Len(mro(objs[i].thisclass)) < 2

\* nargs: super objects replaced by the instance they wrap
unwrap(args) ==
    [i \in 1..Len(args) |->
        IF IsSuper(args[i]) THEN Obj(args[i].cls) ELSE args[i]]

(***************************************************************************)
(* The record of the last operation.                                       *)
(*   op: the operation; types: the signature or discriminant types;        *)
(*   fun: the implementation appended or run; override: the policy;        *)
(*   exc, excArgs: the exception raised and what it carries;               *)
(*   warned, warnNew, warnPrior: the TypeWarning and the names in it;      *)
(*   given: the arguments of the call;                                     *)
(*   args: the arguments the implementation was run with;                  *)
(*   hit: whether the cache answered.                                      *)
(***************************************************************************)
NoRes == [op |-> "init", types |-> <<>>, fun |-> None, override |-> 0,
          exc |-> None, excArgs |-> <<>>, warned |-> FALSE,
          warnNew |-> <<>>, warnPrior |-> <<>>, given |-> <<>>,
          args |-> <<>>, hit |-> FALSE]

\* the callers that may be inside __call__ at the same time
Threads == {1, 2}
Idle == [pc |-> "idle", given |-> <<>>, types |-> <<>>, fun |-> None]

Init ==
    /\ arity \in Arities
    /\ extract = "positional"
    /\ thr = [t \in Threads |-> Idle]
    /\ methods = <<>>
    /\ cache = <<>>
    /\ decs = 0
    /\ res = NoRes

\* add with WARN handled like FAIL
add_warn_refuses(op, fun, types, override) ==
    LET ov == overriden(methods, types, override) IN
    IF ov /\ (override = FAIL \/ override = WARN) THEN
        /\ methods' = methods
        /\ res' = [NoRes EXCEPT !.op = op, !.types = types,
                      !.override = override, !.exc = "TypeError"]
    ELSE IF ov THEN
        /\ methods' = methods
        /\ res' = [NoRes EXCEPT !.op = op, !.types = types,
                      !.override = override, !.exc = "ValueError"]
    ELSE
        /\ Len(methods) < MaxMethods
        /\ methods' = Append(methods, <<types, fun>>)
        /\ res' = [NoRes EXCEPT !.op = op, !.types = types, !.fun = fun,
                      !.override = override]

\* add without its last elif: an unknown policy registers in silence
add_without_elif(op, fun, types, override) ==
    LET ov == overriden(methods, types, override) IN
    IF ov /\ override = FAIL THEN
        /\ methods' = methods
        /\ res' = [NoRes EXCEPT !.op = op, !.types = types,
                      !.override = override, !.exc = "TypeError"]
    ELSE IF ov /\ override = WARN THEN
        /\ Len(methods) < MaxMethods
        /\ methods' = Append(methods, <<types, fun>>)
        /\ res' = [NoRes EXCEPT !.op = op, !.types = types, !.fun = fun,
                      !.override = override, !.warned = TRUE,
                      !.warnNew = types,
                      !.warnPrior = last_signature(methods)]
    ELSE
        /\ Len(methods) < MaxMethods
        /\ methods' = Append(methods, <<types, fun>>)
        /\ res' = [NoRes EXCEPT !.op = op, !.types = types, !.fun = fun,
                      !.override = override]

\* add under WARN overwriting the newest registration instead of appending
add_replacing(op, fun, types, override) ==
    LET ov == overriden(methods, types, override) IN
    IF ov /\ override = FAIL THEN
        /\ methods' = methods
        /\ res' = [NoRes EXCEPT !.op = op, !.types = types,
                      !.override = override, !.exc = "TypeError"]
    ELSE IF ov /\ override = WARN THEN
        /\ methods' = [methods EXCEPT ![Len(methods)] = <<types, fun>>]
        /\ res' = [NoRes EXCEPT !.op = op, !.types = types, !.fun = fun,
                      !.override = override, !.warned = TRUE,
                      !.warnNew = types,
                      !.warnPrior = last_signature(methods)]
    ELSE IF ov THEN
        /\ methods' = methods
        /\ res' = [NoRes EXCEPT !.op = op, !.types = types,
                      !.override = override, !.exc = "ValueError"]
    ELSE
        /\ Len(methods) < MaxMethods
        /\ methods' = Append(methods, <<types, fun>>)
        /\ res' = [NoRes EXCEPT !.op = op, !.types = types, !.fun = fun,
                      !.override = override]

(***************************************************************************)
(* MultiMethod.add(fun, types, override), as a relation on the registry.   *)
(***************************************************************************)
add_capped(cap, op, fun, types, override) ==
    LET ov == overriden(methods, types, override) IN
    IF ov /\ override = FAIL THEN
        /\ methods' = methods
        /\ res' = [NoRes EXCEPT !.op = op, !.types = types,
                      !.override = override, !.exc = "TypeError"]
    ELSE IF ov /\ override = WARN THEN
        /\ Len(methods) < cap
        /\ methods' = Append(methods, <<types, fun>>)
        /\ res' = [NoRes EXCEPT !.op = op, !.types = types, !.fun = fun,
                      !.override = override, !.warned = TRUE,
                      !.warnNew = types,
                      !.warnPrior = last_signature(methods)]
    ELSE IF ov THEN
        /\ methods' = methods
        /\ res' = [NoRes EXCEPT !.op = op, !.types = types,
                      !.override = override, !.exc = "ValueError"]
    ELSE
        /\ Len(methods) < cap
        /\ methods' = Append(methods, <<types, fun>>)
        /\ res' = [NoRes EXCEPT !.op = op, !.types = types, !.fun = fun,
                      !.override = override]

add(op, fun, types, override) ==
    add_capped(MaxMethods, op, fun, types, override)

\* a direct call of add that also empties the cache
Add_clearing ==
    \E fun \in FunsFor(methods), types \in TypeTuples(arity),
       override \in Overrides :
        /\ add("add", fun, types, override)
        /\ cache' = <<>>
        /\ UNCHANGED <<arity, extract, thr, decs>>

\* a direct call of add
Add ==
    \E fun \in FunsFor(methods), types \in TypeTuples(arity),
       override \in Overrides :
        /\ add("add", fun, types, override)
        /\ UNCHANGED <<arity, extract, thr, cache, decs>>

\* add_dec leaving the cache as it is
AddDec_keeps_cache ==
    /\ decs < MaxDecs
    /\ cache' = cache
    /\ decs' = decs + 1
    /\ res' = [NoRes EXCEPT !.op = "add_dec"]
    /\ UNCHANGED <<arity, extract, thr, methods>>

\* add_dec(*types, override=...): clears the cache and returns _dec.
\* What _dec captured acts only when _dec is applied, so it is drawn there.
AddDec ==
    /\ decs < MaxDecs
    /\ cache' = <<>>
    /\ decs' = decs + 1
    /\ res' = [NoRes EXCEPT !.op = "add_dec"]
    /\ UNCHANGED <<arity, extract, thr, methods>>

\* _dec(fun): the closure calls add with the types and override it captured;
\* the caller then lets go of the closure
Dec ==
    \E fun \in FunsFor(methods), types \in TypeTuples(arity),
       override \in Overrides :
        /\ decs > 0
        /\ add("dec", fun, types, override)
        /\ decs' = decs - 1
        /\ UNCHANGED <<arity, extract, thr, cache>>

\* the common tail of __call__ and super: cache, then reverse scan
dispatch(op, given, types, args, noMatchArgs) ==
    LET cached == cache_get(cache, types)
        fun == resolve(methods, types) IN
    IF cached # None THEN
        /\ cache' = cache
        /\ res' = [NoRes EXCEPT !.op = op, !.types = types, !.fun = cached,
                      !.given = given, !.args = args, !.hit = TRUE]
    ELSE IF fun # None THEN
        /\ cache' = cache_put(cache, types, fun)
        /\ res' = [NoRes EXCEPT !.op = op, !.types = types, !.fun = fun,
                      !.given = given, !.args = args]
    ELSE
        /\ cache' = cache
        /\ res' = [NoRes EXCEPT !.op = op, !.types = types, !.given = given,
                      !.exc = "TypeError", !.excArgs = noMatchArgs]

\* __call__ running the implementation with the extractor's tuple
Call_with_objs ==
    \E args \in CallArgs(arity) :
        LET types == type_of(get(args)) IN
        /\ dispatch("call", args, types, get(args), fmt_r(types))
        /\ UNCHANGED <<arity, extract, thr, methods, decs>>

\* MultiMethod.__call__(*args)
Call ==
    \E args \in CallArgs(arity) :
        LET types == type_of(get(args)) IN
        /\ dispatch("call", args, types, args, fmt_r(types))
        /\ UNCHANGED <<arity, extract, thr, methods, decs>>

\* super looking up and storing under the wrapped instances' own classes
Super_cached_by_own_types ==
    \E args \in SuperArgs(arity) :
        /\ IF super_types_fail(get(args)) THEN
               /\ cache' = cache
               /\ res' = [NoRes EXCEPT !.op = "super", !.given = args,
                             !.exc = "IndexError"]
           ELSE
               LET types == super_types(get(args))
                   own == type_of(get(args))
                   cached == cache_get(cache, own)
                   fun == resolve(methods, types) IN
               IF cached # None THEN
                   /\ cache' = cache
                   /\ res' = [NoRes EXCEPT !.op = "super", !.types = types,
                                 !.fun = cached, !.given = args,
                                 !.args = unwrap(args), !.hit = TRUE]
               ELSE IF fun # None THEN
                   /\ cache' = cache_put(cache, own, fun)
                   /\ res' = [NoRes EXCEPT !.op = "super", !.types = types,
                                 !.fun = fun, !.given = args,
                                 !.args = unwrap(args)]
               ELSE
                   /\ cache' = cache
                   /\ res' = [NoRes EXCEPT !.op = "super", !.types = types,
                                 !.given = args, !.exc = "TypeError"]
        /\ UNCHANGED <<arity, extract, thr, methods, decs>>

\* MultiMethod.super(*args)
Super ==
    \E args \in SuperArgs(arity) :
        /\ IF super_types_fail(get(args)) THEN
               /\ cache' = cache
               /\ res' = [NoRes EXCEPT !.op = "super", !.given = args,
                             !.exc = "IndexError"]
           ELSE
               dispatch("super", args, super_types(get(args)), unwrap(args),
                        <<>>)
        /\ UNCHANGED <<arity, extract, thr, methods, decs>>

\* a caller resets the cache: mm.cache = {}
ClearCache ==
    /\ cache # <<>>
    /\ cache' = <<>>
    /\ res' = [NoRes EXCEPT !.op = "clear"]
    /\ UNCHANGED <<arity, extract, thr, methods, decs>>

Next == Add \/ AddDec \/ Dec \/ Call \/ Super \/ ClearCache

Spec == Init /\ [][Next]_vars

(***************************************************************************)
(* The engine built on an extractor whose tuple is not the argument list:  *)
(* MultiMethod(lambda a, b: (b, a)).                                       *)
(***************************************************************************)
InitSwapped ==
    /\ arity = 2
    /\ extract = "swapped"
    /\ thr = [t \in Threads |-> Idle]
    /\ methods = <<>>
    /\ cache = <<>>
    /\ decs = 0
    /\ res = NoRes

SpecSwapped == InitSwapped /\ [][Next]_vars

(***************************************************************************)
(* A single caller that keeps the cache in step with the registry: a       *)
(* decorator is applied as soon as add_dec returned it, and a direct add   *)
(* that registered while the cache held entries is followed by a reset of  *)
(* the cache before anything else.                                         *)
(***************************************************************************)
PendingFlush == res.op = "add" /\ res.exc = None /\ cache # <<>>
InStep == decs = 0 /\ ~PendingFlush

DAdd == InStep /\ Add
DAddDec == InStep /\ AddDec
DDec == Dec
DCall == InStep /\ Call
DSuper == InStep /\ Super
DClearCache == decs = 0 /\ ClearCache

NextDisciplined == DAdd \/ DAddDec \/ DDec \/ DCall \/ DSuper \/ DClearCache

SpecDisciplined == Init /\ [][NextDisciplined]_vars

(***************************************************************************)
(* __call__ as concurrent callers run it, one access to the shared         *)
(* registry or cache at a time: the lookup in the cache (line 79), the     *)
(* scan of reversed(self.methods) (lines 83-84), which sees the registry   *)
(* as long as it was when the scan began, and the store into the cache     *)
(* (line 85).  The implementation is run after the lookup or the store.    *)
(***************************************************************************)
CallRes(given, types, fun, hit) ==
    [NoRes EXCEPT !.op = "call", !.types = types, !.fun = fun,
                  !.given = given, !.args = given, !.hit = hit]

\* objs, types and self.cache.get(types, None); a hit runs the cached one
TBegin(t) ==
    /\ thr[t].pc = "idle"
    /\ \E args \in CallArgs(arity) :
          LET types == type_of(get(args))
              cached == cache_get(cache, types) IN
          IF cached # None THEN
              /\ res' = CallRes(args, types, cached, TRUE)
              /\ thr' = thr
          ELSE
              /\ res' = res
              /\ thr' = [thr EXCEPT ![t] = [pc |-> "scan", given |-> args,
                                            types |-> types, fun |-> None]]
    /\ UNCHANGED <<arity, extract, methods, cache, decs>>

\* the scan without reversed(): the oldest match
TScan_oldest(t) ==
    /\ thr[t].pc = "scan"
    /\ LET fun == scan_oldest(methods, thr[t].types, Len(methods)) IN
       IF fun # None THEN
           /\ thr' = [thr EXCEPT ![t].pc = "put", ![t].fun = fun]
           /\ res' = res
       ELSE
           /\ thr' = [thr EXCEPT ![t] = Idle]
           /\ res' = [NoRes EXCEPT !.op = "call", !.types = thr[t].types,
                         !.given = thr[t].given, !.exc = "TypeError",
                         !.excArgs = fmt_r(thr[t].types)]
    /\ UNCHANGED <<arity, extract, methods, cache, decs>>

\* the reverse scan; no match raises TypeError
TScan(t) ==
    /\ thr[t].pc = "scan"
    /\ LET fun == resolve(methods, thr[t].types) IN
       IF fun # None THEN
           /\ thr' = [thr EXCEPT ![t].pc = "put", ![t].fun = fun]
           /\ res' = res
       ELSE
           /\ thr' = [thr EXCEPT ![t] = Idle]
           /\ res' = [NoRes EXCEPT !.op = "call", !.types = thr[t].types,
                         !.given = thr[t].given, !.exc = "TypeError",
                         !.excArgs = fmt_r(thr[t].types)]
    /\ UNCHANGED <<arity, extract, methods, cache, decs>>

\* a store that resolves again when it writes
TPut_rescan(t) ==
    /\ thr[t].pc = "put"
    /\ cache' = cache_put(cache, thr[t].types, resolve(methods, thr[t].types))
    /\ res' = CallRes(thr[t].given, thr[t].types,
                      resolve(methods, thr[t].types), FALSE)
    /\ thr' = [thr EXCEPT ![t] = Idle]
    /\ UNCHANGED <<arity, extract, methods, decs>>

\* self.cache[types] = fun; return fun(*args, **kwargs)
TPut(t) ==
    /\ thr[t].pc = "put"
    /\ cache' = cache_put(cache, thr[t].types, thr[t].fun)
    /\ res' = CallRes(thr[t].given, thr[t].types, thr[t].fun, FALSE)
    /\ thr' = [thr EXCEPT ![t] = Idle]
    /\ UNCHANGED <<arity, extract, methods, decs>>

CBegin == \E t \in Threads : TBegin(t)
CScan == \E t \in Threads : TScan(t)
CPut == \E t \in Threads : TPut(t)

(***************************************************************************)
(* Build-then-serve: every registration is done, the cache is empty, and   *)
(* the callers run __call__ and reset the cache concurrently.              *)
(***************************************************************************)
Registries(n) ==
    UNION {{ms \in [1..k -> TypeTuples(n) \X Funs] :
               k > 0 => ms[1][2] \in FunsFor(<<>>)} : k \in 0..MaxMethods}

InitServe ==
    /\ arity \in Arities
    /\ extract = "positional"
    /\ thr = [t \in Threads |-> Idle]
    /\ methods \in Registries(arity)
    /\ cache = <<>>
    /\ decs = 0
    /\ res = NoRes

NextServe == CBegin \/ CScan \/ CPut \/ ClearCache

SpecServe == InitServe /\ [][NextServe]_vars

(***************************************************************************)
(* Unsynchronized overlap: one thread makes decorating-form registrations  *)
(* (add_dec, then the returned _dec) while another is inside __call__.     *)
(***************************************************************************)
Invoker == CHOOSE t \in Threads : \A u \in Threads : t <= u

RBegin == TBegin(Invoker)
RScan == TScan(Invoker)
RPut == TPut(Invoker)

NextRace == RBegin \/ RScan \/ RPut \/ AddDec \/ Dec

SpecRace == Init /\ [][NextRace]_vars

(***************************************************************************)
(* The build phase alone: direct calls of add and nothing else, with the   *)
(* registry explored one entry further.                                    *)
(***************************************************************************)
AddBuild ==
    \E fun \in FunsFor(methods), types \in TypeTuples(arity),
       override \in Overrides :
        /\ add_capped(MaxBuild, "add", fun, types, override)
        /\ UNCHANGED <<arity, extract, thr, cache, decs>>

NextBuild == AddBuild

SpecBuild == Init /\ [][NextBuild]_vars

TypeOK ==
    /\ arity \in Arities
    /\ extract \in Extractors
    /\ \A t \in Threads : thr[t].pc \in {"idle", "scan", "put"}
    /\ Len(methods) <= MaxMethods \/ Len(methods) <= MaxBuild
    /\ \A i \in 1..Len(methods) :
          methods[i][1] \in TypeTuples(arity) /\ methods[i][2] \in Funs
    /\ \A t \in DOMAIN cache : cache[t] \in Funs
    /\ decs \in 0..MaxDecs

(***************************************************************************)
(* What the claims are stated with: the subtype test at every position,    *)
(* and the implementation a scan of the registry from its newest entry     *)
(* comes to, both written without the engine's own helpers.                *)
(***************************************************************************)
Covers(sig, T) ==
    /\ Len(sig) = Len(T)
    /\ \A i \in 1..Len(T) : issubclass(T[i], sig[i])

Matching(ms, T) == {i \in 1..Len(ms) : Covers(ms[i][1], T)}

MostRecent(ms, T) ==
    LET M == Matching(ms, T) IN
    IF M = {} THEN None
    ELSE ms[CHOOSE i \in M : \A j \in M : j <= i][2]

Conflict(ms, types) == \E i \in 1..Len(ms) : Covers(ms[i][1], types)

IsRegister(r) == r.op \in {"add", "dec"}

\* every cache entry is what a cold scan of the registry gives for its key
CacheAgrees(ms, c) == \A T \in DOMAIN c : c[T] = MostRecent(ms, T)

(***************************************************************************)
(* C1 Recency wins: a __call__ that misses the cache runs the              *)
(* implementation of the most recently registered signature that is at     *)
(* or above the discriminant types at every position; no newer matching    *)
(* registration exists.                                                    *)
(***************************************************************************)
C1_RecencyWins ==
    (res.op = "call" /\ ~res.hit /\ res.exc = None) =>
        \E i \in 1..Len(methods) :
            /\ Covers(methods[i][1], res.types)
            /\ methods[i][2] = res.fun
            /\ \A j \in (i + 1)..Len(methods) :
                  ~Covers(methods[j][1], res.types)

\* a miss resolved to the newer of two matches, the older more specific
C1_Witness ==
    /\ res.op = "call" /\ ~res.hit /\ res.exc = None
    /\ Len(methods) = 2
    /\ Covers(methods[1][1], res.types)
    /\ Covers(methods[2][1], res.types)
    /\ Covers(methods[2][1], methods[1][1])
    /\ methods[1][1] # methods[2][1]
    /\ methods[1][2] # methods[2][2]
    /\ res.fun = methods[2][2]

(***************************************************************************)
(* C2 Cache transparency, as claimed: a __call__ answered by the cache     *)
(* runs the implementation a cold scan of the registry selects.            *)
(***************************************************************************)
C2_CacheTransparency ==
    (res.op = "call" /\ res.hit) => res.fun = MostRecent(methods, res.types)

(***************************************************************************)
(* C2 as amended: while no registration is appended, a cache that agrees   *)
(* with the cold scan keeps agreeing, and every __call__ that finds an     *)
(* implementation runs the one the cold scan selects, warm or cold.        *)
(***************************************************************************)
C2_TransparentBetweenRegistrations ==
    [][(methods' = methods /\ CacheAgrees(methods, cache)) =>
          /\ cache' # cache => CacheAgrees(methods', cache')
          /\ (res'.op = "call" /\ res'.exc = None) =>
                res'.fun = MostRecent(methods, res'.types)]_vars

\* a warm call with two matching registrations and an agreeing cache
C2_Witness ==
    /\ res.op = "call" /\ res.hit
    /\ CacheAgrees(methods, cache)
    /\ Cardinality(Matching(methods, res.types)) = 2
    /\ methods[1][2] # methods[2][2]
    /\ res.fun = methods[2][2]

(***************************************************************************)
(* C3 Stale cache after bare registration: a direct add leaves the cache   *)
(* as it is, and a __call__ whose types have a cache entry runs the        *)
(* cached implementation and leaves the entry, whatever was registered     *)
(* since.                                                                  *)
(***************************************************************************)
C3_StaleAfterBareAdd ==
    [][/\ res'.op = "add" => cache' = cache
       /\ (res'.op = "call" /\ res'.types \in DOMAIN cache) =>
             /\ res'.exc = None
             /\ res'.fun = cache[res'.types]
             /\ cache' = cache]_vars

\* the old implementation served although a newer registration matches
C3_Witness ==
    /\ res.op = "call" /\ res.hit
    /\ Len(methods) = 2
    /\ Covers(methods[1][1], res.types)
    /\ Covers(methods[2][1], res.types)
    /\ methods[1][1] # methods[2][1]
    /\ Covers(methods[1][1], methods[2][1])
    /\ res.fun = methods[1][2]
    /\ res.fun # methods[2][2]
    /\ decs = 0

(***************************************************************************)
(* C4 The decorating form clears the cache: when _dec has appended its     *)
(* registration, the cache holds no entry resolved before the append.      *)
(***************************************************************************)
C4_DecoratedAppendFindsCacheEmpty ==
    (res.op = "dec" /\ res.exc = None) => cache = <<>>

(***************************************************************************)
(* C5 Fail policy blocks overlap: a registration under FAIL whose          *)
(* signature is at or below a registered one at every position raises      *)
(* TypeError and leaves registry and cache as they were.                   *)
(***************************************************************************)
C5_FailBlocksOverlap ==
    [][(IsRegister(res') /\ res'.override = FAIL
            /\ Conflict(methods, res'.types)) =>
          /\ res'.exc = "TypeError"
          /\ methods' = methods
          /\ cache' = cache]_vars

\* a refused registration strictly below the one registered, cache warm
C5_Witness ==
    /\ res.op = "add" /\ res.override = FAIL /\ res.exc = "TypeError"
    /\ Len(methods) = 1
    /\ Covers(methods[1][1], res.types)
    /\ methods[1][1] # res.types
    /\ cache # <<>>

(***************************************************************************)
(* C6 Warn policy preserves both: a registration under WARN that overlaps  *)
(* raises nothing, warns, and is appended last with the earlier entries    *)
(* kept; a __call__ right after it that misses the cache with types the    *)
(* new signature covers runs the new implementation.                       *)
(***************************************************************************)
C6_WarnPreservesBoth ==
    [][/\ (IsRegister(res') /\ res'.override = WARN
              /\ Conflict(methods, res'.types)) =>
             /\ res'.exc = None
             /\ res'.warned
             /\ methods' = Append(methods, <<res'.types, res'.fun>>)
       /\ (IsRegister(res) /\ res.warned /\ res'.op = "call"
              /\ res'.types \notin DOMAIN cache
              /\ Covers(res.types, res'.types)) =>
             /\ res'.exc = None
             /\ res'.fun = res.fun]_vars

\* the warned registration is last, strictly below the one before it
C6_Witness ==
    /\ IsRegister(res) /\ res.override = WARN /\ res.warned
    /\ Len(methods) = 2
    /\ methods[2] = <<res.types, res.fun>>
    /\ Covers(methods[1][1], methods[2][1])
    /\ methods[1][1] # methods[2][1]
    /\ methods[1][2] # methods[2][2]

(***************************************************************************)
(* C7 Silent policy never checks: a registration under SILENT is always    *)
(* appended, with no exception and no warning.                             *)
(***************************************************************************)
C7_SilentNeverChecks ==
    [][(IsRegister(res') /\ res'.override = SILENT) =>
          /\ res'.exc = None
          /\ ~res'.warned
          /\ methods' = Append(methods, <<res'.types, res'.fun>>)]_vars

\* the same signature registered twice under SILENT
C7_Witness ==
    /\ IsRegister(res) /\ res.override = SILENT
    /\ res.exc = None /\ ~res.warned
    /\ Len(methods) = 2
    /\ methods[1][1] = methods[2][1]
    /\ methods[2] = <<res.types, res.fun>>

(***************************************************************************)
(* C8 No-match surfaces: a __call__ whose types have no cache entry and    *)
(* match no registration raises TypeError carrying the type tuple, runs    *)
(* nothing, and leaves cache and registry as they were.                    *)
(***************************************************************************)
C8_NoMatchCarriesTypes ==
    [][(res'.op = "call" /\ res'.types \notin DOMAIN cache
            /\ Matching(methods, res'.types) = {}) =>
          /\ res'.exc = "TypeError"
          /\ res'.excArgs = res'.types
          /\ res'.fun = None
          /\ cache' = cache
          /\ methods' = methods]_vars

(***************************************************************************)
(* C9 Delegation substitutes the supertype: super matches a super object   *)
(* by the base of its __thisclass__ and any other argument by its own      *)
(* class, and runs the implementation with the wrapped instances in place  *)
(* of the super objects and the other arguments as given.  With (Animal,)  *)
(* then (Dog,) registered, a cold __call__ on a Dog runs the (Dog,)        *)
(* implementation and super with super(Dog, dog) runs the (Animal,) one.   *)
(***************************************************************************)
C9_DelegationSubstitutesSupertype ==
    /\ (res.op = "super" /\ res.exc # "IndexError") =>
          /\ res.types =
                [i \in 1..Len(res.given) |->
                    IF IsSuper(res.given[i])
                    THEN Base[res.given[i].thisclass]
                    ELSE res.given[i].cls]
          /\ res.exc = None =>
                /\ res.args =
                      [i \in 1..Len(res.given) |->
                          [cls |-> res.given[i].cls, thisclass |-> None]]
                /\ ~res.hit => res.fun = MostRecent(methods, res.types)
    /\ (Len(methods) = 2 /\ methods[1][1] = <<"Animal">>
           /\ methods[2][1] = <<"Dog">>) =>
          /\ (res.op = "call" /\ res.types = <<"Dog">> /\ ~res.hit) =>
                res.fun = methods[2][2]
          /\ (res.op = "super" /\ res.given = <<SuperObj("Dog", "Dog")>>) =>
                res.fun = methods[1][2]

\* super(Dog, dog) delegated from the (Dog,) to the (Animal,) implementation
C9_Witness ==
    /\ Len(methods) = 2
    /\ methods[1][1] = <<"Animal">> /\ methods[2][1] = <<"Dog">>
    /\ methods[1][2] # methods[2][2]
    /\ <<"Dog">> \in DOMAIN cache /\ cache[<<"Dog">>] = methods[2][2]
    /\ res.op = "super" /\ res.given = <<SuperObj("Dog", "Dog")>>
    /\ res.fun = methods[1][2]
    /\ res.args = <<Obj("Dog")>>

(***************************************************************************)
(* C10 Invalid policy: a registration under a truthy policy that is        *)
(* neither WARN nor FAIL raises ValueError, not the TypeError of FAIL,     *)
(* and leaves the registry when its signature overlaps; when it does not   *)
(* overlap it is appended with no exception and no warning.                *)
(***************************************************************************)
C10_InvalidPolicy ==
    [][(IsRegister(res') /\ res'.override = BadOverride) =>
          IF Conflict(methods, res'.types)
          THEN /\ res'.exc = "ValueError"
               /\ methods' = methods
          ELSE /\ res'.exc = None
               /\ ~res'.warned
               /\ methods' = Append(methods, <<res'.types, res'.fun>>)]_vars

\* both outcomes: refused with ValueError on an overlap
C10_Witness ==
    /\ IsRegister(res) /\ res.override = BadOverride
    /\ res.exc = "ValueError"
    /\ Len(methods) = 1
    /\ Covers(methods[1][1], res.types)

(***************************************************************************)
(* C11 Original arguments: __call__ runs the selected implementation with  *)
(* the arguments it was called with, not with the tuple the extractor      *)
(* made of them, whether the cache answered or the scan did.               *)
(***************************************************************************)
Swapped(xs) == [i \in 1..Len(xs) |-> xs[Len(xs) + 1 - i]]

C11_RunsWithOriginalArguments ==
    (res.op = "call" /\ res.exc = None) =>
        /\ res.fun # None
        /\ res.args = res.given
        /\ (extract = "swapped" /\ Swapped(res.given) # res.given) =>
              res.args # Swapped(res.given)

\* a cache hit whose discriminant tuple differs from the arguments
C11_Witness ==
    /\ res.op = "call" /\ res.hit /\ res.exc = None
    /\ extract = "swapped"
    /\ res.given[1].cls # res.given[2].cls
    /\ res.types = <<res.given[2].cls, res.given[1].cls>>
    /\ res.args = res.given

(***************************************************************************)
(* C12 Conflict predicate: under a policy other than SILENT a              *)
(* registration is flagged (an exception or a warning) exactly when some   *)
(* registered signature is at or above the new one at every position.  A   *)
(* new signature strictly above a registered one, and at or below none,    *)
(* is appended unflagged and a cold scan then gives its implementation     *)
(* for every type tuple the older signature covers.                        *)
(***************************************************************************)
StrictlyAbove(sig, other) == Covers(sig, other) /\ sig # other

CallTypes == {[i \in 1..Len(a) |-> a[i].cls] : a \in CallArgs(arity)}

C13_WarningNamesConflict ==
    res.warned =>
        /\ res.warnNew = res.types
        /\ \E i \in 1..(Len(methods) - 1) : methods[i][1] = res.warnPrior
        /\ Covers(res.warnPrior, res.types)

(***************************************************************************)
(* C14 No stale resolution under the clearing discipline: when the cache   *)
(* is cleared after every registration before the next invocation, each    *)
(* __call__ and each super runs the implementation a cold reverse scan of  *)
(* the registry selects for its discriminant types, and raises TypeError   *)
(* only when that scan finds none.                                         *)
(***************************************************************************)
C14_NoStaleUnderDiscipline ==
    (res.op \in {"call", "super"} /\ res.exc # "IndexError") =>
        IF res.exc = None
        THEN res.fun = MostRecent(methods, res.types)
        ELSE MostRecent(methods, res.types) = None

\* the cache answers with the newer of two matching registrations
C14_Witness ==
    /\ res.op = "call" /\ res.hit
    /\ Len(methods) = 2
    /\ Cardinality(Matching(methods, res.types)) = 2
    /\ StrictlyAbove(methods[1][1], methods[2][1])
    /\ methods[1][2] # methods[2][2]
    /\ res.fun = methods[2][2]

(***************************************************************************)
(* C15 Build-then-serve: with the registry fixed, under every              *)
(* interleaving of concurrent __call__s and cache resets each __call__     *)
(* runs the most recently registered implementation that covers its        *)
(* types (or raises TypeError when none does), and every cache entry, and  *)
(* every entry a caller is about to store, is that implementation.         *)
(***************************************************************************)
C15_ServeRunsMostRecent ==
    /\ res.op = "call" =>
          IF res.exc = None
          THEN res.fun = MostRecent(methods, res.types)
          ELSE MostRecent(methods, res.types) = None
    /\ CacheAgrees(methods, cache)
    /\ \A t \in Threads :
          thr[t].pc = "put" => thr[t].fun = MostRecent(methods, thr[t].types)

\* a caller has stored and run; another is about to store the same entry
C15_Witness ==
    /\ res.op = "call" /\ ~res.hit /\ res.exc = None
    /\ res.types \in DOMAIN cache
    /\ \E t \in Threads : thr[t].pc = "put" /\ thr[t].types = res.types
    /\ Cardinality(Matching(methods, res.types)) = 2
    /\ methods[1][2] # methods[2][2]

(***************************************************************************)
(* C16 Unsynchronized overlap is unsafe: whenever a __call__ on T whose    *)
(* scan ran before a matching registration was appended stores its         *)
(* resolution after that append (hence after the decorator's clear), the   *)
(* store goes through unchecked: the cache then maps T to the older        *)
(* implementation while the newer matching registration is in the          *)
(* registry.  The witness is such an interleaving.                         *)
(***************************************************************************)
C16_LateStoreLeavesStaleEntry ==
    [][\A t \in Threads :
         (/\ thr[t].pc = "put" /\ thr'[t].pc = "idle"
          /\ thr[t].fun # MostRecent(methods, thr[t].types))
         => /\ methods' = methods
            /\ thr[t].types \in DOMAIN cache'
            /\ cache'[thr[t].types] = thr[t].fun
            /\ res'.fun = thr[t].fun
            /\ ~CacheAgrees(methods', cache')]_vars

C16_Witness ==
    /\ res.op = "call" /\ ~res.hit /\ res.exc = None
    /\ decs = 0
    /\ Len(methods) = 2
    /\ res.types \in DOMAIN cache
    /\ cache[res.types] = methods[1][2]
    /\ Covers(methods[2][1], res.types)
    /\ methods[2][2] # methods[1][2]

(***************************************************************************)
(* C17 Cooperative and direct invocations are cached independently: super  *)
(* looks up and stores only the cache entry keyed by the substituted       *)
(* types; every other entry, the one keyed by the wrapped instances' own   *)
(* classes included, is neither read nor written.  With the (Dog,)         *)
(* implementation cached by a __call__ on a Dog, super with super(Dog,     *)
(* dog) does not run it unless it is also registered at or above           *)
(* (Animal,).                                                              *)
(***************************************************************************)
C17_SuperKeyedBySubstitutedTypes ==
    [][(res'.op = "super" /\ res'.exc # "IndexError") =>
         LET K == super_types(get(res'.given))
             own == type_of(get(res'.given)) IN
         /\ res'.types = K
         /\ DOMAIN cache' \subseteq DOMAIN cache \cup {K}
         /\ \A T \in DOMAIN cache :
               T # K => T \in DOMAIN cache' /\ cache'[T] = cache[T]
         /\ IF K \in DOMAIN cache
            THEN /\ cache' = cache
                 /\ res'.hit /\ res'.fun = cache[K]
            ELSE /\ ~res'.hit
                 /\ res'.fun = MostRecent(methods, K)
                 /\ res'.exc = None =>
                       K \in DOMAIN cache' /\ cache'[K] = res'.fun
                 /\ res'.exc # None => cache' = cache
         /\ (/\ res'.given = <<SuperObj("Dog", "Dog")>>
             /\ own \in DOMAIN cache
             /\ \A i \in Matching(methods, K) : methods[i][2] # cache[own])
            => res'.fun # cache[own]]_vars

\* the (Dog,) implementation is cached; super(Dog, dog) misses the cache,
\* runs the (Animal,) one and stores it under (Animal,)
C17_Witness ==
    /\ res.op = "super" /\ res.given = <<SuperObj("Dog", "Dog")>>
    /\ ~res.hit /\ res.exc = None
    /\ <<"Dog">> \in DOMAIN cache /\ <<"Animal">> \in DOMAIN cache
    /\ cache[<<"Dog">>] # cache[<<"Animal">>]
    /\ res.fun = cache[<<"Animal">>]
    /\ methods[1][1] = <<"Animal">>

(***************************************************************************)
(* C18 The registry is append-only: every step keeps each registration at  *)
(* its index with its signature and implementation; __call__, super, a     *)
(* reset of the cache, the creation of a decorator and a refused           *)
(* registration leave the registry as it was; a registration that goes     *)
(* through adds exactly its own entry at the end.                          *)
(***************************************************************************)
C18_RegistryAppendOnly ==
    [][/\ Len(methods') >= Len(methods)
       /\ \A i \in 1..Len(methods) : methods'[i] = methods[i]
       /\ (res'.op \in {"call", "super", "clear", "add_dec"}
              \/ res'.exc # None) => methods' = methods
       /\ (IsRegister(res') /\ res'.exc = None) =>
             methods' = Append(methods, <<res'.types, res'.fun>>)]_vars

\* a refused registration left a registry of two as it was, after an
\* overlapping registration had been appended to it
C18_Witness ==
    /\ IsRegister(res) /\ res.exc # None
    /\ Len(methods) = 2
    /\ Covers(methods[1][1], methods[2][1])
    /\ Conflict(methods, res.types)

(***************************************************************************)
(* C19 Cache soundness: in every state each cache entry maps its type      *)
(* tuple T to the implementation of a registration, present in the         *)
(* registry, whose signature is at or above T at every position; and an    *)
(* entry is written only with the most recent such registration of the     *)
(* registry at that time.                                                  *)
(***************************************************************************)
CacheSound ==
    \A T \in DOMAIN cache :
        \E i \in Matching(methods, T) : methods[i][2] = cache[T]

WrittenIsMostRecent ==
    \A T \in DOMAIN cache' :
        (T \notin DOMAIN cache \/ cache'[T] # cache[T]) =>
            cache'[T] = MostRecent(methods, T)

C19_CacheSoundness == []CacheSound /\ [][WrittenIsMostRecent]_vars

\* a sound entry that is no longer the most recent match of its key
C19_Witness ==
    /\ cache # <<>>
    /\ \E T \in DOMAIN cache :
          /\ Cardinality(Matching(methods, T)) = 2
          /\ cache[T] = methods[1][2]
          /\ cache[T] # MostRecent(methods, T)

(***************************************************************************)
(* C20 Delegation strictly ascends: when the implementation that has just  *)
(* run delegates through super with super objects whose __thisclass__ is   *)
(* its own signature type at their position, super ends with a result or   *)
(* with the no-match TypeError, and an implementation it runs is that of   *)
(* a registration whose signature type at each such position is neither    *)
(* the __thisclass__ nor a subclass of it.                                 *)
(***************************************************************************)
ChainStep ==
    /\ res.op \in {"call", "super"} /\ res.exc = None
    /\ res'.op = "super"
    /\ unwrap(res'.given) = res.args
    /\ \E i \in 1..Len(res'.given) : IsSuper(res'.given[i])
    /\ \E k \in 1..Len(methods) :
          /\ methods[k][2] = res.fun
          /\ Covers(methods[k][1], res.types)
          /\ \A i \in 1..Len(res'.given) :
                IsSuper(res'.given[i]) =>
                    res'.given[i].thisclass = methods[k][1][i]

Ascends ==
    res'.exc = None =>
        \E k \in 1..Len(methods) :
            /\ methods[k][2] = res'.fun
            /\ Covers(methods[k][1], res'.types)
            /\ \A i \in 1..Len(res'.given) :
                  IsSuper(res'.given[i]) =>
                      ~issubclass(methods[k][1][i], res'.given[i].thisclass)

C20_DelegationStrictlyAscends ==
    [][ChainStep => (res'.exc \in {None, "TypeError"} /\ Ascends)]_vars

====
